---- MODULE Spec2Model ----
(***************************************************************************)
(* Model of jira_cloud_bulk_archive: cmd/archive/main.go drives            *)
(* jira.Client.GetAllIssuesByLabel (the Issue Locator, in its cursor-token *)
(* version of internal/jira/client.go and in its earlier startAt/total     *)
(* version) and worker.Archiver.ArchiveIssues (the sequential bulk-batch   *)
(* executor), then derives the process exit status from the outcomes.      *)
(*                                                                         *)
(* An Issue is represented by its Key (ID and Fields are only logged).     *)
(* The remote service is the environment: its search result set, its       *)
(* paging and its replies to the bulk archive call are nondeterministic.   *)
(***************************************************************************)
EXTENDS Integers, Sequences, FiniteSets, TLC

(* ------------------------------ bounds --------------------------------- *)
\* number of distinct issue keys
MaxKeys == 2
\* longest candidate sequence handed to the Archiver
MaxIssues == 3
\* Archiver.batchSize ranges over 1..MaxBatchSize (the code's 1000, scaled)
MaxBatchSize == 2
\* most pages the cursor-token server splits its result set into
MaxPages == 3
\* cap of the search-call counter; the code never reaches it
MaxSearchCalls == 6
\* page size requested by GetAllIssuesByLabel (the code's 100, scaled)
maxResults == 2

(* ------------------------------ values --------------------------------- *)
Keys == 1..MaxKeys

\* Go's nil error
NilErr == "<nil>"

\* messages the service can put in the per-key error map
Messages == {"", "E1"}

\* the zero value of jira.Issue.Key / ArchiveResult.IssueKey (Go's "")
EmptyKey == 0

Min(a, b) == IF a < b THEN a ELSE b

Max(a, b) == IF a > b THEN a ELSE b

SeqsUpTo(S, n) == UNION {[1..m -> S] : m \in 0..n}

IsInjective(s) == \A i, j \in DOMAIN s : s[i] = s[j] => i = j

RECURSIVE SeqSum(_)
SeqSum(s) == IF s = <<>> THEN 0 ELSE s[1] + SeqSum(Tail(s))

RECURSIVE Concat(_)
Concat(ss) == IF ss = <<>> THEN <<>> ELSE ss[1] \o Concat(Tail(ss))

VARIABLES
    pc,             \* position of main
    exitCode,       \* process exit status, -1 while running
    discipline,     \* which GetAllIssuesByLabel is built: "cursor" | "offset"
    records,        \* the service's ordered result set for the JQL filter
    pageSizes,      \* cursor service: record count of each page it serves
    nextPageToken,  \* GetAllIssuesByLabel local (0 is the empty token)
    startAt,        \* GetAllIssuesByLabel local (offset version)
    allIssues,      \* GetAllIssuesByLabel local accumulator
    searchCalls,    \* number of SearchIssues calls made
    pageCounts,     \* len(result.Issues) of every page received, in order
    locErr,         \* error returned by GetAllIssuesByLabel
    issues,         \* main's issues / ArchiveIssues' parameter
    batchSize,      \* Archiver.batchSize
    batches,        \* ArchiveIssues local
    batchNum,       \* ArchiveIssues loop index (0-based)
    allResults,     \* ArchiveIssues local, then main's results
    archiveCalls,   \* issueKeys of every Client.ArchiveIssues call, in order
    archiveErrs,    \* err of every returned Client.ArchiveIssues call, in order
    lastReturn      \* processBatch's resp, err: the latest (resp, err) returned

vars == <<pc, exitCode, discipline, records, pageSizes, nextPageToken, startAt,
          allIssues, searchCalls, pageCounts, locErr, issues, batchSize,
          batches, batchNum, allResults, archiveCalls, archiveErrs,
          lastReturn>>

locVars == <<nextPageToken, startAt, allIssues, searchCalls, pageCounts, locErr>>

envVars == <<discipline, records, pageSizes, batchSize>>

arcVars == <<batches, batchNum, allResults, archiveCalls, archiveErrs, lastReturn>>

(* --------------------------- remote service ---------------------------- *)
\* number of records on the pages before page k of the cursor service
PageOffset(k) == SeqSum(SubSeq(pageSizes, 1, k - 1))

\* SearchResult decoded from the search/jql reply to a page token: the empty
\* token asks for the first page, the last page carries no nextPageToken
CursorSearchResult(token) ==
    LET k == IF token = 0 THEN 1 ELSE token
    IN  [Issues        |-> SubSeq(records, PageOffset(k) + 1,
                                  PageOffset(k) + pageSizes[k]),
         NextPageToken |-> IF k < Len(pageSizes) THEN k + 1 ELSE 0]

\* SearchResult decoded from the search reply to startAt when the service
\* delivers n records: the records from startAt on, and the fixed total
OffsetSearchResult(at, n) ==
    [Issues |-> SubSeq(records, at + 1, at + n),
     Total  |-> Len(records)]

\* record counts the service may deliver for a page starting at startAt
OffsetPageCounts(at) == 0..Min(maxResults, Max(0, Len(records) - at))

\* error returned by SearchIssues (transport, status or decode failure)
SearchErr == "search failed"

(* ------------------------ GetAllIssuesByLabel -------------------------- *)
\* what GetAllIssuesByLabel returns as issues when SearchIssues failed
SearchErrorIssuesPartial(acc) == acc

SearchErrorIssues(acc) == <<>>

\* the offset for the next request of the startAt/total version
NextStartAtByCount(at, n) == at + n

NextStartAt(at, n) == at + maxResults

\* loop exit test of the startAt/total version
OffsetDone(at, result) == at + Len(result.Issues) >= result.Total

\* one iteration of the cursor-token loop: SearchIssues succeeds
GetAllIssuesByLabelCursor ==
    /\ pc = "locate"
    /\ discipline = "cursor"
    /\ searchCalls < MaxSearchCalls
    /\ LET result == CursorSearchResult(nextPageToken)
       IN  /\ searchCalls' = searchCalls + 1
           /\ pageCounts' = Append(pageCounts, Len(result.Issues))
           /\ allIssues' = allIssues \o result.Issues
           /\ IF result.NextPageToken = 0
                THEN /\ pc' = "located"
                     /\ issues' = allIssues'
                     /\ UNCHANGED nextPageToken
                ELSE /\ pc' = "locate"
                     /\ nextPageToken' = result.NextPageToken
                     /\ UNCHANGED issues
    /\ UNCHANGED <<exitCode, startAt, locErr>>
    /\ UNCHANGED envVars
    /\ UNCHANGED arcVars

\* one iteration of the startAt/total loop: SearchIssues succeeds
GetAllIssuesByLabelOffset ==
    /\ pc = "locate"
    /\ discipline = "offset"
    /\ searchCalls < MaxSearchCalls
    /\ \E n \in OffsetPageCounts(startAt) :
         LET result == OffsetSearchResult(startAt, n)
         IN  /\ searchCalls' = searchCalls + 1
             /\ pageCounts' = Append(pageCounts, Len(result.Issues))
             /\ allIssues' = allIssues \o result.Issues
             /\ IF OffsetDone(startAt, result)
                  THEN /\ pc' = "located"
                       /\ issues' = allIssues'
                       /\ UNCHANGED startAt
                  ELSE /\ pc' = "locate"
                       /\ startAt' = NextStartAt(startAt, n)
                       /\ UNCHANGED issues
    /\ UNCHANGED <<exitCode, nextPageToken, locErr>>
    /\ UNCHANGED envVars
    /\ UNCHANGED arcVars

\* one iteration of either loop: SearchIssues fails, return nil, err
GetAllIssuesByLabelFail ==
    /\ pc = "locate"
    /\ searchCalls < MaxSearchCalls
    /\ searchCalls' = searchCalls + 1
    /\ locErr' = SearchErr
    /\ issues' = SearchErrorIssues(allIssues)
    /\ pc' = "located"
    /\ UNCHANGED <<exitCode, nextPageToken, startAt, allIssues, pageCounts>>
    /\ UNCHANGED envVars
    /\ UNCHANGED arcVars

(* -------------------------------- main --------------------------------- *)
\* faulty variant: the search error is only logged and main goes on to the
\* Archiver with whatever GetAllIssuesByLabel returned
MainSearchErrorIgnored ==
    /\ pc = "located"
    /\ locErr # NilErr
    /\ pc' = "archive_enter"
    /\ UNCHANGED <<exitCode, issues>>
    /\ UNCHANGED locVars
    /\ UNCHANGED envVars
    /\ UNCHANGED arcVars

\* log.Fatalf("Failed to search for issues") exits with status 1
MainSearchFatal ==
    /\ pc = "located"
    /\ locErr # NilErr
    /\ pc' = "exited"
    /\ exitCode' = 1
    /\ UNCHANGED <<issues>>
    /\ UNCHANGED locVars
    /\ UNCHANGED envVars
    /\ UNCHANGED arcVars

\* "No issues to archive. Exiting." os.Exit(0)
MainNothingToArchive ==
    /\ pc = "located"
    /\ locErr = NilErr
    /\ Len(issues) = 0
    /\ pc' = "exited"
    /\ exitCode' = 0
    /\ UNCHANGED <<issues>>
    /\ UNCHANGED locVars
    /\ UNCHANGED envVars
    /\ UNCHANGED arcVars

\* worker.NewArchiver(...) and the call archiver.ArchiveIssues(issues)
MainCallArchiver ==
    /\ pc = "located"
    /\ locErr = NilErr
    /\ Len(issues) # 0
    /\ pc' = "archive_enter"
    /\ UNCHANGED <<exitCode, issues>>
    /\ UNCHANGED locVars
    /\ UNCHANGED envVars
    /\ UNCHANGED arcVars

(* ------------------------- Client.ArchiveIssues ------------------------ *)
\* per-key error maps the service can send: any subset of the keys
ErrorMaps == UNION {[D -> Messages] : D \in SUBSET Keys}

\* the empty Go map, also the value of the Errors field when it is nil
NoErrors == [k \in {} |-> ""]

\* bodies of the archive reply: none, not JSON, or a JSON object whose
\* "errors" member is absent (hasErrors = FALSE) or the given map
ArchiveBodies ==
    {[kind |-> "empty", hasErrors |-> FALSE, errors |-> NoErrors],
     [kind |-> "invalid", hasErrors |-> FALSE, errors |-> NoErrors],
     [kind |-> "json", hasErrors |-> FALSE, errors |-> NoErrors]}
    \cup {[kind |-> "json", hasErrors |-> TRUE, errors |-> m] : m \in ErrorMaps}

\* outcomes of httpClient.Do for the archive request
ArchiveReplies ==
    {[transport |-> FALSE, status |-> st, body |-> b] :
        st \in {200, 204, 500}, b \in ArchiveBodies}
    \cup {[transport |-> TRUE, status |-> 0,
           body |-> [kind |-> "empty", hasErrors |-> FALSE, errors |-> NoErrors]]}

\* (resp, err) returned by Client.ArchiveIssues for a reply of the service;
\* resp.Errors is nil (ErrorsNil) unless the body carried an "errors" object
ClientArchiveIssues(reply) ==
    IF reply.transport
      THEN [respNil |-> TRUE, ErrorsNil |-> TRUE, Errors |-> NoErrors,
            err |-> "failed to execute request"]
    ELSE IF reply.status # 200 /\ reply.status # 204
      THEN [respNil |-> TRUE, ErrorsNil |-> TRUE, Errors |-> NoErrors,
            err |-> "API returned status 500"]
    ELSE IF reply.body.kind = "empty"
      THEN [respNil |-> FALSE, ErrorsNil |-> TRUE, Errors |-> NoErrors,
            err |-> NilErr]
    ELSE IF reply.body.kind = "invalid"
      THEN [respNil |-> TRUE, ErrorsNil |-> TRUE, Errors |-> NoErrors,
            err |-> "failed to decode response"]
    ELSE [respNil |-> FALSE, ErrorsNil |-> ~reply.body.hasErrors,
          Errors |-> reply.body.errors, err |-> NilErr]

\* processBatch's resp, err before any call has returned
NoReturn == [respNil |-> TRUE, ErrorsNil |-> TRUE, Errors |-> NoErrors, err |-> NilErr]

\* the errors Client.ArchiveIssues returns for a call that failed outright
ClientErrors ==
    {"failed to execute request", "API returned status 500",
     "failed to decode response"}

\* Go's map index expression m[k]: the zero value "" for an absent key
MapGet(m, k) == IF k \in DOMAIN m THEN m[k] ELSE ""

(* ------------------------------ Archiver ------------------------------- *)
\* faulty variant: the loop stops at the last full batch
RECURSIVE createBatchesFullOnlyFrom(_, _, _)
createBatchesFullOnlyFrom(iss, B, i) ==
    IF i + B <= Len(iss)
      THEN <<SubSeq(iss, i + 1, i + B)>> \o createBatchesFullOnlyFrom(iss, B, i + B)
      ELSE <<>>

\* faulty variant: end is one past the batch, so batches overlap
RECURSIVE createBatchesOverlapFrom(_, _, _)
createBatchesOverlapFrom(iss, B, i) ==
    IF i < Len(iss)
      THEN LET end == Min(i + B + 1, Len(iss))
           IN  <<SubSeq(iss, i + 1, end)>> \o createBatchesOverlapFrom(iss, B, i + B)
      ELSE <<>>

\* the loop of createBatches from index i (0-based): issues[i:end]
RECURSIVE createBatchesFrom(_, _, _)
createBatchesFrom(iss, B, i) ==
    IF i < Len(iss)
      THEN LET end == IF i + B > Len(iss) THEN Len(iss) ELSE i + B
           IN  <<SubSeq(iss, i + 1, end)>> \o createBatchesFrom(iss, B, i + B)
      ELSE <<>>

createBatchesFullOnly(iss, B) == createBatchesFullOnlyFrom(iss, B, 0)

createBatchesOverlap(iss, B) == createBatchesOverlapFrom(iss, B, 0)

createBatches(iss, B) == createBatchesFrom(iss, B, 0)

\* the ArchiveResult processBatch builds for one issue of the batch
batchResult(key, r) ==
    IF r.err # NilErr
      THEN [IssueKey |-> key, Success |-> FALSE, Error |-> r.err]
    ELSE IF ~r.respNil /\ ~r.ErrorsNil /\ MapGet(r.Errors, key) # ""
      THEN [IssueKey |-> key, Success |-> FALSE, Error |-> MapGet(r.Errors, key)]
    ELSE [IssueKey |-> key, Success |-> TRUE, Error |-> NilErr]

\* the zero value of ArchiveResult
ZeroResult == [IssueKey |-> EmptyKey, Success |-> FALSE, Error |-> NilErr]

\* faulty variant: results appended to the slice made with length batchSize
processBatchResultsAppended(batch, r) ==
    [i \in 1..Len(batch) |-> ZeroResult] \o [i \in 1..Len(batch) |-> batchResult(batch[i], r)]

\* faulty variant: the loop breaks after recording the first failure of a
\* failed call, leaving the zero value in the other slots
processBatchResultsBreak(batch, r) ==
    [i \in 1..Len(batch) |->
        IF r.err # NilErr /\ i > 1 THEN ZeroResult ELSE batchResult(batch[i], r)]

\* faulty variant: a key present in the error map fails, whatever its message
processBatchResultsPresence(batch, r) ==
    [i \in 1..Len(batch) |->
        IF r.err = NilErr /\ ~r.respNil /\ ~r.ErrorsNil /\ batch[i] \in DOMAIN r.Errors
          THEN [IssueKey |-> batch[i], Success |-> FALSE, Error |-> r.Errors[batch[i]]]
          ELSE batchResult(batch[i], r)]

\* batchResults of processBatch for the (resp, err) of its bulk call
processBatchResults(batch, r) ==
    [i \in 1..Len(batch) |-> batchResult(batch[i], r)]

\* faulty variant: the batch results are put in front
appendBatchResultsFront(all, batchResults) == batchResults \o all

\* allResults = append(allResults, batchResults...)
appendBatchResults(all, batchResults) == all \o batchResults

\* ArchiveIssues up to the loop: the empty input returns at once
ArchiveIssuesEnter ==
    /\ pc = "archive_enter"
    /\ IF Len(issues) = 0
         THEN /\ pc' = "archive_ret"
              /\ allResults' = <<>>
              /\ UNCHANGED <<batches, batchNum>>
         ELSE /\ pc' = "batch_loop"
              /\ batches' = createBatches(issues, batchSize)
              /\ batchNum' = 0
              /\ allResults' = <<>>
    /\ UNCHANGED <<exitCode, issues, archiveCalls, archiveErrs, lastReturn>>
    /\ UNCHANGED locVars
    /\ UNCHANGED envVars

\* faulty variant: every batch is submitted from its own goroutine, so the
\* next call is issued while the previous one is still in flight
processBatchCallConcurrent ==
    /\ pc \in {"batch_loop", "rpc_wait"}
    /\ Len(archiveCalls) < Len(batches)
    /\ archiveCalls' = Append(archiveCalls, batches[Len(archiveCalls) + 1])
    /\ pc' = "rpc_wait"
    /\ UNCHANGED <<exitCode, issues, batches, batchNum, allResults, archiveErrs,
                   lastReturn>>
    /\ UNCHANGED locVars
    /\ UNCHANGED envVars

\* processBatch collects the keys and issues the bulk archive call
processBatchCall ==
    /\ pc = "batch_loop"
    /\ batchNum < Len(batches)
    /\ archiveCalls' = Append(archiveCalls, batches[batchNum + 1])
    /\ pc' = "rpc_wait"
    /\ UNCHANGED <<exitCode, issues, batches, batchNum, allResults, archiveErrs,
                   lastReturn>>
    /\ UNCHANGED locVars
    /\ UNCHANGED envVars

\* Client.ArchiveIssues returns (resp, err) for the service's reply
ArchiveIssuesRPCReturn ==
    /\ pc = "rpc_wait"
    /\ \E reply \in ArchiveReplies :
         /\ lastReturn' = ClientArchiveIssues(reply)
         /\ archiveErrs' = Append(archiveErrs, lastReturn'.err)
    /\ pc' = "batch_record"
    /\ UNCHANGED <<exitCode, issues, batches, batchNum, allResults, archiveCalls>>
    /\ UNCHANGED locVars
    /\ UNCHANGED envVars

\* processBatch builds batchResults, ArchiveIssues appends them
processBatchRecord ==
    /\ pc = "batch_record"
    /\ allResults' = appendBatchResults(allResults,
                          processBatchResults(batches[batchNum + 1], lastReturn))
    /\ batchNum' = batchNum + 1
    /\ pc' = "batch_loop"
    /\ UNCHANGED <<exitCode, issues, batches, archiveCalls, archiveErrs, lastReturn>>
    /\ UNCHANGED locVars
    /\ UNCHANGED envVars

\* the range loop is over: return allResults
ArchiveIssuesReturn ==
    /\ pc = "batch_loop"
    /\ batchNum >= Len(batches)
    /\ pc' = "archive_ret"
    /\ UNCHANGED <<exitCode, issues>>
    /\ UNCHANGED arcVars
    /\ UNCHANGED locVars
    /\ UNCHANGED envVars

(* ----------------------------- main, end ------------------------------- *)
\* faulty variant: the scan looks at the first result only
hasFailuresFirstOnly(results) == Len(results) > 0 /\ ~results[1].Success

\* the scan of main for a result with Success = false
hasFailures(results) == \E i \in DOMAIN results : ~results[i].Success

\* PrintSummary, then os.Exit(1) on failures or the normal return of main
MainExit ==
    /\ pc = "archive_ret"
    /\ pc' = "exited"
    /\ exitCode' = IF hasFailures(allResults) THEN 1 ELSE 0
    /\ UNCHANGED <<issues>>
    /\ UNCHANGED arcVars
    /\ UNCHANGED locVars
    /\ UNCHANGED envVars

(* --------------------------- specifications ---------------------------- *)
InjectiveSeqs == {s \in SeqsUpTo(Keys, MaxIssues) : IsInjective(s)}

\* ways the cursor service can split n records into pages
Pagings(n) ==
    {ps \in UNION {[1..m -> 0..maxResults] : m \in 1..MaxPages} : SeqSum(ps) = n}

InitLocals ==
    /\ exitCode = -1
    /\ nextPageToken = 0
    /\ startAt = 0
    /\ allIssues = <<>>
    /\ searchCalls = 0
    /\ pageCounts = <<>>
    /\ locErr = NilErr
    /\ batches = <<>>
    /\ batchNum = 0
    /\ allResults = <<>>
    /\ archiveCalls = <<>>
    /\ archiveErrs = <<>>
    /\ lastReturn = NoReturn

\* the whole program, started against a service holding distinct records
Init ==
    /\ pc = "locate"
    /\ discipline \in {"cursor", "offset"}
    /\ records \in InjectiveSeqs
    /\ pageSizes \in (IF discipline = "cursor" THEN Pagings(Len(records)) ELSE {<<>>})
    /\ batchSize \in 1..MaxBatchSize
    /\ issues = <<>>
    /\ InitLocals

Next ==
    \/ GetAllIssuesByLabelCursor
    \/ GetAllIssuesByLabelOffset
    \/ GetAllIssuesByLabelFail
    \/ MainSearchFatal
    \/ MainNothingToArchive
    \/ MainCallArchiver
    \/ ArchiveIssuesEnter
    \/ processBatchCall
    \/ ArchiveIssuesRPCReturn
    \/ processBatchRecord
    \/ ArchiveIssuesReturn
    \/ MainExit

Spec == Init /\ [][Next]_vars

\* every call in the program is blocking and bounded by the HTTP timeout,
\* so the single thread always takes its next step
FairSpec == Spec /\ WF_vars(Next)

\* Archiver.ArchiveIssues called on any candidate sequence
InitArchive ==
    /\ pc = "archive_enter"
    /\ discipline = "cursor"
    /\ records = <<>>
    /\ pageSizes = <<0>>
    /\ batchSize \in 1..MaxBatchSize
    /\ issues \in SeqsUpTo(Keys, MaxIssues)
    /\ InitLocals

NextArchive ==
    \/ ArchiveIssuesEnter
    \/ processBatchCall
    \/ ArchiveIssuesRPCReturn
    \/ processBatchRecord
    \/ ArchiveIssuesReturn

SpecArchive == InitArchive /\ [][NextArchive]_vars

\* GetAllIssuesByLabel alone, against every service of Init
NextLocate ==
    \/ GetAllIssuesByLabelCursor
    \/ GetAllIssuesByLabelOffset
    \/ GetAllIssuesByLabelFail

\* SearchIssues is bounded by the HTTP timeout, so the loop always proceeds
SpecLocate == Init /\ [][NextLocate]_vars /\ WF_vars(NextLocate)

(* ------------------------------ properties ----------------------------- *)
\* number of occurrences of key k in the sequence of keys s
Count(s, k) == Cardinality({i \in DOMAIN s : s[i] = k})

\* position in allResults of the i-th issue of batch b (both 1-based)
ResultIndex(b, i) == (b - 1) * batchSize + i

\* the outcome of the i-th issue of batch b has been recorded and equals o
ResultIs(b, i, o) ==
    /\ ResultIndex(b, i) \in DOMAIN allResults
    /\ allResults[ResultIndex(b, i)] = o

\* batches whose outcomes have been recorded
RecordedBatches == {b \in 1..batchNum : b <= Len(batches) /\ b <= Len(archiveErrs)}

\* lastReturn is the (resp, err) of the latest recorded batch, batch batchNum
LastRecorded == batchNum >= 1 /\ batchNum <= Len(batches) /\ Len(archiveErrs) = batchNum

\* the reply r carries a per-key error map with a non-empty message for key k
InErrorMap(r, k) ==
    /\ ~r.respNil
    /\ ~r.ErrorsNil
    /\ k \in DOMAIN r.Errors
    /\ r.Errors[k] # ""

Failure(key, e) == [IssueKey |-> key, Success |-> FALSE, Error |-> e]

Success(key) == [IssueKey |-> key, Success |-> TRUE, Error |-> NilErr]

\* C1: when ArchiveIssues returns, it returns exactly one outcome per input
\* candidate: as many outcomes as candidates, and every key occurs among the
\* outcomes exactly as often as among the candidates
C1_OneOutcomePerCandidate ==
    pc = "archive_ret" =>
        /\ Len(allResults) = Len(issues)
        /\ \A k \in Keys \cup {EmptyKey} :
             Count([i \in DOMAIN allResults |-> allResults[i].IssueKey], k)
               = Count(issues, k)

\* C1 witness: a run over three candidates, two of them with the same key,
\* with a failed call, a per-key error and a last reply without a map
C1_Witness ==
    /\ pc = "archive_ret"
    /\ Len(issues) = 3
    /\ \E i, j \in DOMAIN issues : i # j /\ issues[i] = issues[j]
    /\ \E b \in DOMAIN archiveErrs : archiveErrs[b] # NilErr
    /\ lastReturn.err = NilErr
    /\ lastReturn.ErrorsNil
    /\ \E i \in DOMAIN allResults : allResults[i].Error = "E1"

\* C2: at every point of a run the i-th recorded outcome carries the key of
\* the i-th input candidate, and on return there is one for every index
C2_InputOrderPreserved ==
    /\ \A i \in DOMAIN allResults :
         i \in DOMAIN issues /\ allResults[i].IssueKey = issues[i]
    /\ pc = "archive_ret" => DOMAIN allResults = DOMAIN issues

\* C2 witness: two batches over distinct keys in descending order, the first
\* batch failed outright and the second one has a per-key error
C2_Witness ==
    /\ pc = "archive_ret"
    /\ Len(batches) = 2
    /\ Len(issues) = 2
    /\ issues[1] > issues[2]
    /\ archiveErrs[1] # NilErr
    /\ allResults[2].Error = "E1"

\* C3: the batches are ceil(M/B) many, each non-empty and of size <= B, and
\* their concatenation in order is the input sequence; the empty input gives
\* no batch
C3_BatchPartition ==
    LET M == Len(issues)
        B == batchSize
        Partition(bs) ==
            /\ Len(bs) = (M + B - 1) \div B
            /\ \A b \in DOMAIN bs : Len(bs[b]) >= 1 /\ Len(bs[b]) <= B
            /\ Concat(bs) = issues
    IN  /\ B >= 1
        /\ pc \in {"batch_loop", "rpc_wait", "batch_record", "archive_ret"}
             => Partition(batches)
        /\ M = 0 => Partition(createBatches(issues, B))

\* C3 witness: three candidates split into a full batch of two and a last
\* batch of one
C3_Witness ==
    /\ pc = "batch_loop"
    /\ Len(issues) = 3
    /\ batchSize = 2
    /\ Len(batches) = 2
    /\ Len(batches[1]) = 2
    /\ Len(batches[2]) = 1

\* C4: every candidate of a batch whose call failed outright has a failure
\* outcome carrying the error of that call; the outcomes of a batch whose
\* call succeeded carry no error of a failed call, they are successes or
\* failures with a per-key message, as the batch's own reply says; and when
\* ArchiveIssues returns, every batch has been submitted, whatever calls
\* failed
C4_BatchFailureStaysInBatch ==
    /\ \A b \in RecordedBatches :
         \A i \in DOMAIN batches[b] :
            LET k == batches[b][i]
                e == archiveErrs[b]
            IN  IF e # NilErr
                  THEN ResultIs(b, i, Failure(k, e))
                  ELSE \/ ResultIs(b, i, Success(k))
                       \/ \E m \in Messages \ {""} : ResultIs(b, i, Failure(k, m))
    /\ LastRecorded /\ lastReturn.err = NilErr =>
         \A i \in DOMAIN batches[batchNum] :
            LET k == batches[batchNum][i]
            IN  ResultIs(batchNum, i,
                         IF InErrorMap(lastReturn, k)
                           THEN Failure(k, lastReturn.Errors[k])
                           ELSE Success(k))
    /\ pc = "archive_ret" =>
         /\ batchNum = Len(batches)
         /\ Len(archiveCalls) = Len(batches)
         /\ Len(archiveErrs) = Len(batches)
         /\ \A b \in DOMAIN batches : archiveCalls[b] = batches[b]

\* C4 witness: three batches, the second call failed outright, the first
\* and the third batch are successes
C4_Witness ==
    /\ pc = "archive_ret"
    /\ Len(batches) = 3
    /\ archiveErrs[1] = NilErr
    /\ archiveErrs[2] # NilErr
    /\ archiveErrs[3] = NilErr
    /\ allResults[1].Success
    /\ ~allResults[2].Success
    /\ allResults[2].Error = archiveErrs[2]
    /\ allResults[3].Success

\* C5: for a batch whose call succeeded, a candidate has a failure outcome
\* iff the reply has an error map holding a non-empty message for its key,
\* and the outcome carries that message; any other candidate of the batch
\* (key absent, map absent or empty, message empty) has a success outcome
\* without error detail. Stated of every batch when it has been recorded.
C5_PerKeyErrors ==
    LastRecorded /\ lastReturn.err = NilErr =>
        \A i \in DOMAIN batches[batchNum] :
            LET k == batches[batchNum][i]
                r == lastReturn
            IN  /\ ResultIndex(batchNum, i) \in DOMAIN allResults
                /\ ~allResults[ResultIndex(batchNum, i)].Success <=> InErrorMap(r, k)
                /\ InErrorMap(r, k) => ResultIs(batchNum, i, Failure(k, r.Errors[k]))
                /\ ~InErrorMap(r, k) => ResultIs(batchNum, i, Success(k))

\* C5 witness: a successful call for a batch of two, one key with a message
\* in the map and the other one with the empty message
C5_Witness ==
    /\ LastRecorded
    /\ lastReturn.err = NilErr
    /\ Len(batches[batchNum]) = 2
    /\ batches[batchNum][1] # batches[batchNum][2]
    /\ DOMAIN lastReturn.Errors = {batches[batchNum][1], batches[batchNum][2]}
    /\ lastReturn.Errors[batches[batchNum][1]] = "E1"
    /\ lastReturn.Errors[batches[batchNum][2]] = ""
    /\ ~allResults[ResultIndex(batchNum, 1)].Success
    /\ allResults[ResultIndex(batchNum, 2)].Success

\* C5 witness of a success when the reply carried no map at all
C5_WitnessNoMap ==
    /\ LastRecorded
    /\ lastReturn.err = NilErr
    /\ lastReturn.ErrorsNil
    /\ allResults[ResultIndex(batchNum, 1)].Success

\* C6: when GetAllIssuesByLabel returns without error, under either
\* discipline and whatever the page fill, it returns the service's result
\* set exactly: the same records in the same order, each once, as many as
\* the pages carried together
C6_NoLossNoDuplicate ==
    (pc # "locate" /\ locErr = NilErr) =>
        /\ issues = records
        /\ IsInjective(issues)
        /\ Len(issues) = SeqSum(pageCounts)

\* C7: a step in which SearchIssues fails returns the error with no issues,
\* also when earlier pages had been accumulated, and ends the loop; after
\* it no search call is made and the returned issues stay empty
C7_SearchFailureDiscardsAll ==
    [][locErr' # NilErr =>
          /\ issues' = <<>>
          /\ pc' # "locate"
          /\ locErr # NilErr => searchCalls' = searchCalls]_vars

\* C7 witness: the failure hit a middle page of the cursor service after
\* records had been accumulated, and main has stopped on it
C7_Witness ==
    /\ pc = "exited"
    /\ locErr # NilErr
    /\ discipline = "cursor"
    /\ Len(pageSizes) = 3
    /\ searchCalls = 2
    /\ allIssues # <<>>
    /\ issues = <<>>

\* C8: against a finite result set the GetAllIssuesByLabel loop eventually
\* exits, under either discipline and whatever the page fill, and it does so
\* within the cap on search calls
C8_LocateTerminates ==
    /\ <>(pc = "located")
    /\ [](searchCalls < MaxSearchCalls)

\* C8 witness: the loop has returned without error after a non-final page
\* that carried no record at all
C8_Witness ==
    /\ pc = "located"
    /\ locErr = NilErr
    /\ \E j \in DOMAIN pageCounts : j < Len(pageCounts) /\ pageCounts[j] = 0

\* C8 witness of the startAt/total loop returning after a short first page
C8_WitnessOffset ==
    /\ C8_Witness
    /\ discipline = "offset"

\* C9: there are never more bulk calls than batches and, on return, exactly
\* one call per batch; for candidates with distinct keys no key is ever sent
\* in two calls or twice in a call, and on return every candidate's key has
\* been sent exactly once
C9_SentOnce ==
    LET sent(k) == {c \in DOMAIN archiveCalls :
                       \E p \in DOMAIN archiveCalls[c] : archiveCalls[c][p] = k}
    IN  /\ pc \in {"batch_loop", "rpc_wait", "batch_record", "archive_ret"}
             => Len(archiveCalls) <= Len(batches)
        /\ pc = "archive_ret" => Len(archiveCalls) = Len(batches)
        /\ IsInjective(issues) =>
             /\ \A c \in DOMAIN archiveCalls : IsInjective(archiveCalls[c])
             /\ \A k \in Keys : Cardinality(sent(k)) <= 1
             /\ pc = "archive_ret" =>
                  \A i \in DOMAIN issues : Cardinality(sent(issues[i])) = 1

\* C9 witness: two candidates with distinct keys in two batches, the first
\* call failed outright and the second reported a per-key error, two calls
C9_Witness ==
    /\ pc = "archive_ret"
    /\ Len(issues) = 2
    /\ issues[1] # issues[2]
    /\ Len(batches) = 2
    /\ Len(archiveCalls) = 2
    /\ archiveErrs[1] # NilErr
    /\ archiveErrs[2] = NilErr
    /\ ~allResults[2].Success

\* C10: when the locator returns zero candidates main never enters the
\* Archiver, no archive call is made and the exit status is 0; otherwise
\* the exit status is 1 iff some outcome has Success = false, and 0 if not
C10_ExitStatus ==
    /\ (pc # "locate" /\ locErr = NilErr /\ Len(issues) = 0) =>
          /\ pc \in {"located", "exited"}
          /\ archiveCalls = <<>>
          /\ pc = "exited" => exitCode = 0
    /\ (pc = "exited" /\ locErr = NilErr /\ Len(issues) # 0) =>
          /\ Len(allResults) = Len(issues)
          /\ exitCode = 1 <=> \E i \in DOMAIN allResults : ~allResults[i].Success
          /\ (\A i \in DOMAIN allResults : allResults[i].Success) => exitCode = 0

\* C10 witness: exit status 1 after a run whose first outcome is a success
\* and whose second outcome is a failure
C10_Witness ==
    /\ pc = "exited"
    /\ exitCode = 1
    /\ Len(allResults) = 2
    /\ allResults[1].Success
    /\ ~allResults[2].Success

\* C10 witness of the empty candidate set: exit status 0, no archive call
C10_WitnessEmpty ==
    /\ pc = "exited"
    /\ locErr = NilErr
    /\ Len(issues) = 0
    /\ exitCode = 0

\* bulk archive calls issued and not yet returned
InFlight == Len(archiveCalls) - Len(archiveErrs)

\* number of candidates in the first n batches
RECURSIVE BatchItems(_)
BatchItems(n) == IF n = 0 THEN 0 ELSE BatchItems(n - 1) + Len(batches[n])

FinalPageReceived ==
    /\ pc # "locate"
    /\ locErr = NilErr
    /\ pageCounts # <<>>
    /\ discipline = "cursor" => Len(pageCounts) = Len(pageSizes)
    /\ discipline = "offset" =>
         startAt + pageCounts[Len(pageCounts)] >= Len(records)

\* C12: an archive call is issued only after the locator has received its
\* final page and returned its candidates without error; once a search call
\* has failed, no archive call is ever issued, the Archiver is never entered
\* and the only step main takes is to stop with exit status 1
C12_LocateBeforeExecute ==
    /\ [](archiveCalls # <<>> =>
            /\ FinalPageReceived
            /\ issues = allIssues
            /\ searchCalls = Len(pageCounts))
    /\ [](locErr # NilErr =>
            /\ archiveCalls = <<>>
            /\ pc \in {"located", "exited"}
            /\ pc = "exited" => exitCode = 1)
    /\ [][(locErr # NilErr /\ pc = "located") =>
            (pc' = "exited" /\ exitCode' = 1 /\ archiveCalls' = <<>>)]_vars

\* C12 witness: the search failed on the second call of the startAt/total
\* loop after records had been accumulated; main stopped with status 1 and
\* no archive call was made
C12_Witness ==
    /\ pc = "exited"
    /\ exitCode = 1
    /\ locErr # NilErr
    /\ discipline = "offset"
    /\ searchCalls = 2
    /\ allIssues # <<>>
    /\ archiveCalls = <<>>

\* C12 witness of the order: an archive call is in flight after a locate of
\* several pages
C12_WitnessArchiveAfterLocate ==
    /\ pc = "rpc_wait"
    /\ Len(pageCounts) >= 2
    /\ FinalPageReceived
    /\ Len(archiveCalls) = 1

====
